---- MODULE Spec2Model ----
(***************************************************************************)
(* State-machine model of the model-build flow of VoidAI's frontend:       *)
(* the PromptBuilder component (its React state, its event handlers and    *)
(* the asynchronous continuations of handleSubmit, handleStartTraining,    *)
(* loadModel and the dataset fetch), the IntentEditor update functions     *)
(* and the backend calls of mlBuilderService / projectService.             *)
(*                                                                         *)
(* Conventions.  An optional value (T | null | undefined) is a sequence of *)
(* length 0 (absent) or 1 (present).  A JavaScript string that the code    *)
(* inspects is a sequence of characters (prompt) or of decimal digits      *)
(* (selectedDatasetId); messages are TLA+ strings.  An optional number     *)
(* that the code only tests for truthiness uses 0 for "absent".            *)
(***************************************************************************)
EXTENDS Integers, Sequences, FiniteSets

\* ------------------------------------------------------------------ bounds

\* Dataset records the backend can hold (1 exists at mount; uploads add more).
MaxDatasets == 2

\* Asynchronous handler instances of one kind that may be pending at once.
MaxInFlight == 2

\* ------------------------------------------------------------- option type

None == << >>

Some(x) == << x >>

IsSome(o) == Len(o) = 1

Get(o) == o[1]

\* ------------------------------------------------------------ input domains

\* Prompt texts the user can type: "", " " and " a".
Prompts == { << >>, << " " >>, << " ", "a" >> }

Whitespace == { " " }

\* No attached file; an attached file is its name, a sequence of characters.
NoFile == << >>

\* The file the user can attach: "d.c".
Files == { << "d", ".", "c" >> }

\* name of the dataset record that exists when the builder mounts
ExistingDataset == << "e" >>

\* The draft model the dashboard can ask the builder to resume.
DraftId == 5

\* The project the dashboard renders the builder for.
ProjectId == 1

\* model_id of the draft record created by an extraction.
ExtractedModelId == 9

Metrics == { "accuracy", "f1" }

ToggleNames == { "xgboost" }

\* Transport / server failures of a backend call, as axios reports them:
\* resp is err.response?.data?.error, msg is err.message ("" when absent).
ServerErrors ==
    { [resp |-> "Invalid request", msg |-> "Request failed with status code 400"],
      [resp |-> "", msg |-> "Network Error"],
      [resp |-> "", msg |-> ""] }

\* ------------------------------------------------------------ pure helpers

RECURSIVE TrimLeft(_)
TrimLeft(s) ==
    IF s # << >> /\ Head(s) \in Whitespace THEN TrimLeft(Tail(s)) ELSE s

RECURSIVE TrimRight(_)
TrimRight(s) ==
    IF s # << >> /\ s[Len(s)] \in Whitespace
    THEN TrimRight(SubSeq(s, 1, Len(s) - 1))
    ELSE s

\* String.prototype.trim
Trim(s) == TrimRight(TrimLeft(s))

\* parseInt on a string of decimal digits; NaN (for "") is 0: the code only
\* tests the result for truthiness before using it.
RECURSIVE ParseInt(_)
ParseInt(s) ==
    IF s = << >> THEN 0 ELSE 10 * ParseInt(SubSeq(s, 1, Len(s) - 1)) + s[Len(s)]

\* Number.prototype.toString for a non-negative integer.
RECURSIVE toString(_)
toString(n) ==
    IF n < 10 THEN << n >> ELSE Append(toString(n \div 10), n % 10)

\* Mutant: the generic fallback is left out.
ErrMsg_noFallback(err, fallback) ==
    IF err.resp # "" THEN err.resp ELSE err.msg

\* err.response?.data?.error || err.message || fallback
ErrMsg(err, fallback) ==
    IF err.resp # "" THEN err.resp
    ELSE IF err.msg # "" THEN err.msg
    ELSE fallback

\* s.split(sep)[0]: the part of s before the first sep.
RECURSIVE SplitFirst(_, _)
SplitFirst(s, sep) ==
    IF s = << >> \/ Head(s) = sep THEN << >>
    ELSE << Head(s) >> \o SplitFirst(Tail(s), sep)

\* new Error(message)
Thrown(message) == [resp |-> "", msg |-> message]

\* Mutant: splice(i) without a count, which drops the rest of the array too.
RemoveAt_truncate(s, i) == SubSeq(s, 1, i - 1)

\* splice(i, 1) on a copy of s
RemoveAt(s, i) == SubSeq(s, 1, i - 1) \o SubSeq(s, i + 1, Len(s))

\* ------------------------------------------------------------------ intent

\* The intent the backend extracts (one representative value).
BackendIntent ==
    [ task |-> [type |-> "classification", metric |-> "accuracy"],
      preprocessing |-> [scaling |-> "standard",
                         missing_strategy |-> [numeric |-> "mean",
                                               categorical |-> "most_frequent"]],
      search_space |-> [models |-> << [name |-> "random_forest",
                                       params |-> "n_estimators"] >>] ]

\* {} : an object without properties
EmptyObject == [k \in {} |-> ""]

\* Mutant: the spread of the previous object is forgotten.
Spread_noCopy(obj, key, value) == [k \in { key } |-> value]

\* { ...obj, [key]: value }
Spread(obj, key, value) ==
    [k \in DOMAIN obj \cup { key } |-> IF k = key THEN value ELSE obj[k]]

\* obj[key] || {}
Section(obj, key) == IF key \in DOMAIN obj THEN obj[key] ELSE EmptyObject

\* (intent.search_space || {}).models || []
Models(intent) ==
    LET searchSpace == Section(intent, "search_space")
    IN  IF "models" \in DOMAIN searchSpace THEN searchSpace.models ELSE << >>

\* IntentEditor.updateTask
updateTask(intent, key, value) ==
    Spread(intent, "task", Spread(Section(intent, "task"), key, value))

\* IntentEditor.updatePreprocessing
updatePreprocessing(intent, key, value) ==
    Spread(intent, "preprocessing",
           Spread(Section(intent, "preprocessing"), key, value))

\* the missing-values selects: updatePreprocessing('missing_strategy',
\* { ...preprocessing.missing_strategy, [which]: value })
updateMissingStrategy(intent, which, value) ==
    updatePreprocessing(intent, "missing_strategy",
        Spread(Section(Section(intent, "preprocessing"), "missing_strategy"),
               which, value))

\* IntentEditor.updateTask for key = "metric"
updateTaskMetric(intent, value) == updateTask(intent, "metric", value)

\* Mutant: the search never finds the entry.
FindIndex_none(models, modelName) == 0

\* findIndex(m => m.name === modelName): 0 when there is none.
FindIndex(models, modelName) ==
    IF \E i \in 1..Len(models) : models[i].name = modelName
    THEN CHOOSE i \in 1..Len(models) :
            /\ models[i].name = modelName
            /\ \A j \in 1..(i - 1) : models[j].name # modelName
    ELSE 0

\* Mutant: an entry is added when absent, but never removed.
toggleModel_noRemove(intent, modelName) ==
    LET models == Models(intent)
        currentModels ==
            IF FindIndex(models, modelName) >= 1 THEN models
            ELSE Append(models, [name |-> modelName, params |-> ""])
    IN  Spread(intent, "search_space",
               Spread(Section(intent, "search_space"), "models", currentModels))

\* IntentEditor.toggleModel; params: {} is the string "" .
toggleModel(intent, modelName) ==
    LET models == Models(intent)
        existingIndex == FindIndex(models, modelName)
        currentModels ==
            IF existingIndex >= 1
            THEN RemoveAt(models, existingIndex)
            ELSE Append(models, [name |-> modelName, params |-> ""])
    IN  Spread(intent, "search_space",
               Spread(Section(intent, "search_space"), "models", currentModels))

\* ------------------------------------------------------------------- state

VARIABLES
    prompt,             \* useState("")                      the prompt text
    loading,            \* useState(false)                   submit / loadModel busy
    trainingLoading,    \* useState(false)                   training busy
    error,              \* useState("")                      the shown message
    file,               \* useState<File | null>(null)       the attached file's name
    selectionMode,      \* useState('upload')                "upload" | "select"
    datasets,           \* useState<Dataset[]>([])           ids of the listed datasets
    selectedDatasetId,  \* useState<string>("")              digits of the picked id
    intentResult,       \* useState<IntentExtractionResponse | null>(null)
    trainingResult,     \* useState<any | null>(null)
    submits,            \* pending handleSubmit calls, each at its await
    trainings,          \* pending handleStartTraining calls: the request sent
                        \*   (req) and, as history, the event before the call
    loadOp,             \* loadModel(initialModelId) is awaiting getModel
    fetchOp,            \* the mount effect's fetchDatasets is awaiting getDatasets
    serverDatasets,     \* the backend's dataset records: the name of record id
                        \*   at index id
    extractedDatasetId, \* history: dataset_id of the extract-intent request
                        \*   that produced the stored response (0: none yet)
    lastEvent           \* history: the last build operation or completion

vars == << prompt, loading, trainingLoading, error, file, selectionMode, datasets,
           selectedDatasetId, intentResult, trainingResult, submits, trainings,
           loadOp, fetchOp, serverDatasets, extractedDatasetId, lastEvent >>

formVars == << prompt, file, selectionMode, selectedDatasetId >>

opVars == << submits, trainings, loadOp, fetchOp >>

\* The component right after mounting: every useState at its initial value,
\* both mount effects started (fetchDatasets, and loadModel when the dashboard
\* passed an initialModelId, which sets loading before its first await).
Init ==
    /\ prompt = << >>
    /\ trainingLoading = FALSE
    /\ error = ""
    /\ file = NoFile
    /\ selectionMode = "upload"
    /\ datasets = {}
    /\ selectedDatasetId = << >>
    /\ intentResult = None
    /\ trainingResult = None
    /\ submits = << >>
    /\ trainings = << >>
    /\ loadOp \in BOOLEAN
    /\ loading = loadOp
    /\ fetchOp = TRUE
    /\ serverDatasets = << ExistingDataset >>
    /\ extractedDatasetId = 0
    /\ lastEvent = "mount"

Log(e) == lastEvent' = e

Busy == loading \/ trainingLoading

\* The session holds an intent: the condition that renders the editor panel.
HasIntent == IsSome(intentResult) /\ IsSome(Get(intentResult).intent)

\* ----------------------------------------------------------- form controls

\* textarea onChange (disabled while loading || trainingLoading)
SetPrompt(v) ==
    /\ ~Busy
    /\ prompt' = v
    /\ UNCHANGED << loading, trainingLoading, error, file, selectionMode, datasets,
                    selectedDatasetId, intentResult, trainingResult, opVars,
                    serverDatasets,
                    extractedDatasetId, lastEvent >>

\* the "Upload New File" / "Select Existing" buttons (never disabled)
SetSelectionMode(m) ==
    /\ selectionMode' = m
    /\ UNCHANGED << prompt, loading, trainingLoading, error, file, datasets,
                    selectedDatasetId, intentResult, trainingResult, opVars,
                    serverDatasets,
                    extractedDatasetId, lastEvent >>

\* The form's controls are disabled while busy; the copies of them inside the
\* results panel (shown once trainingResult is set) are never disabled.
ControlsUsable == ~Busy \/ IsSome(trainingResult)

\* handleFileChange, and the results panel's file input
handleFileChange(f) ==
    /\ selectionMode = "upload"
    /\ ControlsUsable
    /\ file' = f
    /\ UNCHANGED << prompt, loading, trainingLoading, error, selectionMode, datasets,
                    selectedDatasetId, intentResult, trainingResult, opVars,
                    serverDatasets,
                    extractedDatasetId, lastEvent >>

\* removeFile, and the results panel's "Remove file"
removeFile ==
    /\ selectionMode = "upload"
    /\ file # NoFile
    /\ ControlsUsable
    /\ file' = NoFile
    /\ UNCHANGED << prompt, loading, trainingLoading, error, selectionMode, datasets,
                    selectedDatasetId, intentResult, trainingResult, opVars,
                    serverDatasets,
                    extractedDatasetId, lastEvent >>

\* The options of the dataset <select>: "" and one per listed dataset.
DatasetOptions == { << >> } \cup { toString(d) : d \in datasets }

\* the dataset <select> onChange (form copy and results-panel copy)
SelectDataset(v) ==
    /\ selectionMode = "select"
    /\ \/ ~Busy
       \/ IsSome(trainingResult) /\ datasets # {}
    /\ selectedDatasetId' = v
    /\ UNCHANGED << prompt, loading, trainingLoading, error, file, selectionMode,
                    datasets, intentResult, trainingResult, opVars,
                    serverDatasets,
                    extractedDatasetId, lastEvent >>

\* ------------------------------------------------------------ handleSubmit

\* Mutant: the prompt is tested without trim().
SubmitInputError_noTrim(pid, p, mode, f, sel) ==
    IF pid = 0 THEN "Project context missing. Please refresh the page."
    ELSE IF p = << >> THEN "Please enter a prompt"
    ELSE IF mode = "upload" /\ f = NoFile THEN "Please upload a dataset file"
    ELSE IF mode = "select" /\ sel = << >> THEN "Please select a dataset"
    ELSE ""

\* Mutant: the missing-file test is left out.
SubmitInputError_noFileCheck(pid, p, mode, f, sel) ==
    IF pid = 0 THEN "Project context missing. Please refresh the page."
    ELSE IF Trim(p) = << >> THEN "Please enter a prompt"
    ELSE IF mode = "select" /\ sel = << >> THEN "Please select a dataset"
    ELSE ""

\* The early returns of handleSubmit: the message set, "" when none applies.
SubmitInputError(pid, p, mode, f, sel) ==
    IF pid = 0 THEN "Project context missing. Please refresh the page."
    ELSE IF Trim(p) = << >> THEN "Please enter a prompt"
    ELSE IF mode = "upload" /\ f = NoFile THEN "Please upload a dataset file"
    ELSE IF mode = "select" /\ sel = << >> THEN "Please select a dataset"
    ELSE ""

\* Mutant: the button ignores loading.
isSubmitDisabled_noLoading ==
    \/ Trim(prompt) = << >>
    \/ selectionMode = "upload" /\ file = NoFile
    \/ selectionMode = "select" /\ selectedDatasetId = << >>
    \/ trainingLoading

\* Mutant: the button ignores trainingLoading.
isSubmitDisabled_noTraining ==
    \/ Trim(prompt) = << >>
    \/ selectionMode = "upload" /\ file = NoFile
    \/ selectionMode = "select" /\ selectedDatasetId = << >>
    \/ loading

\* const isSubmitDisabled = ...
isSubmitDisabled ==
    \/ Trim(prompt) = << >>
    \/ selectionMode = "upload" /\ file = NoFile
    \/ selectionMode = "select" /\ selectedDatasetId = << >>
    \/ loading
    \/ trainingLoading

\* Mutant: handleSubmit leaves trainingResult alone.
SubmitStartOutcome_keep(tr) == tr

\* What handleSubmit sets trainingResult to before its first call.
SubmitStartOutcome(tr) == None

\* A pending handleSubmit: where it awaits (upload | refresh | extract) and the
\* values its closure holds; after is history, the build event that preceded
\* the call.
SubmitOp(pc, id) ==
    [pc |-> pc, prompt |-> prompt, file |-> file, dataset_id |-> id,
     after |-> lastEvent]

\* The synchronous part of handleSubmit, up to its first await (or to the end
\* of its finally block when it returns or throws before awaiting).
handleSubmit ==
    LET msg == SubmitInputError(ProjectId, prompt, selectionMode, file,
                                selectedDatasetId)
        finalDatasetId == IF selectedDatasetId # << >>
                          THEN ParseInt(selectedDatasetId) ELSE 0
    IN  IF msg # ""
        THEN /\ error' = msg
             /\ Log("submitRejected")
             /\ UNCHANGED << loading, trainingLoading, intentResult,
                             trainingResult, submits >>
        ELSE /\ intentResult' = None
             /\ trainingResult' = SubmitStartOutcome(trainingResult)
             /\ IF selectionMode = "upload" /\ file # NoFile
                THEN /\ loading' = TRUE
                     /\ error' = ""
                     /\ submits' = Append(submits, SubmitOp("upload", 0))
                     /\ Log("submit")
                     /\ UNCHANGED trainingLoading
                ELSE IF finalDatasetId = 0
                THEN /\ loading' = FALSE
                     /\ trainingLoading' = FALSE
                     /\ error' = ErrMsg(Thrown("Failed to resolve dataset ID"),
                                        "An error occurred. Please try again.")
                     /\ Log("resolveFail")
                     /\ UNCHANGED submits
                ELSE /\ loading' = TRUE
                     /\ error' = ""
                     /\ submits' = Append(submits,
                                          SubmitOp("extract", finalDatasetId))
                     /\ Log("submit")
                     /\ UNCHANGED trainingLoading

\* The submit button (disabled = isSubmitDisabled) delivers the form's submit.
SubmitClick ==
    /\ ~isSubmitDisabled
    /\ Len(submits) < MaxInFlight
    /\ handleSubmit
    /\ UNCHANGED << formVars, datasets, trainings, loadOp, fetchOp, serverDatasets,
                    extractedDatasetId >>

\* No asynchronous call of the component is pending.
Quiescent == submits = << >> /\ trainings = << >> /\ ~loadOp

\* A submit event that reaches the form's onSubmit without the button (the
\* handler is bound to the form; only the button consults isSubmitDisabled),
\* as a programmatic submit or a test delivers it between calls.
FormSubmit ==
    /\ Quiescent
    /\ handleSubmit
    /\ UNCHANGED << formVars, datasets, trainings, loadOp, fetchOp, serverDatasets,
                    extractedDatasetId >>

\* Mutant: the finally block of handleSubmit is missing.
SubmitCatch_noFinally(i, err, event) ==
    /\ error' = ErrMsg(err, "An error occurred. Please try again.")
    /\ UNCHANGED << loading, trainingLoading >>
    /\ submits' = RemoveAt(submits, i)
    /\ Log(event)

\* catch + finally of handleSubmit for the pending call i
SubmitCatch(i, err, event) ==
    /\ error' = ErrMsg(err, "An error occurred. Please try again.")
    /\ loading' = FALSE
    /\ trainingLoading' = FALSE
    /\ submits' = RemoveAt(submits, i)
    /\ Log(event)

\* POST /datasets/ answers with a 2xx status. With an id in the body the
\* backend has created a record named file.name.split('.')[0] and its id
\* becomes finalDatasetId; a body without an id (response.data is returned
\* unchecked) leaves finalDatasetId falsy. Either way the dataset list refresh
\* is awaited next.
UploadOk(i, withId) ==
    /\ i \in 1..Len(submits)
    /\ submits[i].pc = "upload"
    /\ IF withId
       THEN /\ Len(serverDatasets) < MaxDatasets
            /\ serverDatasets' =
                  Append(serverDatasets, SplitFirst(submits[i].file, "."))
            /\ submits' = [submits EXCEPT ![i] =
                              [@ EXCEPT !.pc = "refresh",
                                        !.dataset_id = Len(serverDatasets) + 1]]
       ELSE /\ serverDatasets' = serverDatasets
            /\ submits' = [submits EXCEPT ![i] = [@ EXCEPT !.pc = "refresh"]]
    /\ Log("uploadOk")
    /\ UNCHANGED << formVars, loading, trainingLoading, error, datasets,
                    intentResult, trainingResult, trainings, loadOp, fetchOp,
                    extractedDatasetId >>

\* Mutant: a failed upload is swallowed and the submit goes on to the
\* extract-intent call.
UploadFail_swallowed(i, err) ==
    /\ i \in 1..Len(submits)
    /\ submits[i].pc = "upload"
    /\ err \in ServerErrors
    /\ submits' = [submits EXCEPT ![i] = [@ EXCEPT !.pc = "extract"]]
    /\ Log("uploadFail")
    /\ UNCHANGED << formVars, loading, trainingLoading, error, datasets,
                    intentResult, trainingResult, trainings, loadOp, fetchOp,
                    serverDatasets, extractedDatasetId >>

\* POST /datasets/ fails
UploadFail(i, err) ==
    /\ i \in 1..Len(submits)
    /\ submits[i].pc = "upload"
    /\ SubmitCatch(i, err, "uploadFail")
    /\ UNCHANGED << formVars, datasets, intentResult, trainingResult, trainings,
                    loadOp, fetchOp, serverDatasets,
                    extractedDatasetId >>

\* GET /datasets/?project= answers inside handleSubmit: setDatasets, then the
\* !finalDatasetId test, then the extract-intent call.
RefreshOk(i) ==
    /\ i \in 1..Len(submits)
    /\ submits[i].pc = "refresh"
    /\ datasets' = 1..Len(serverDatasets)
    /\ IF submits[i].dataset_id = 0
       THEN SubmitCatch(i, Thrown("Failed to resolve dataset ID"),
                        "noDatasetId")
       ELSE /\ submits' = [submits EXCEPT ![i] = [@ EXCEPT !.pc = "extract"]]
            /\ Log("resolved")
            /\ UNCHANGED << loading, trainingLoading, error >>
    /\ UNCHANGED << formVars, intentResult, trainingResult, trainings, loadOp,
                    fetchOp, serverDatasets,
                    extractedDatasetId >>

\* GET /datasets/?project= fails inside handleSubmit: the rejection is caught
\* by handleSubmit's catch.
RefreshFail(i, err) ==
    /\ i \in 1..Len(submits)
    /\ submits[i].pc = "refresh"
    /\ SubmitCatch(i, err, "refreshFail")
    /\ UNCHANGED << formVars, datasets, intentResult, trainingResult, trainings,
                    loadOp, fetchOp, serverDatasets,
                    extractedDatasetId >>

\* The answers POST /extract-intent/ can give with a 2xx status to a request
\* for dataset id: two successful shapes of IntentExtractionResponse (every
\* optional field present / absent) and two with success = false (with a
\* message and no intent / with an intent and no message).
ExtractResponses(id) ==
    { [success |-> TRUE, intent |-> Some(BackendIntent),
       model_id |-> ExtractedModelId,
       validation |-> [is_valid |-> TRUE, warnings |-> << >>],
       experiment_plan |-> Some([experiments |-> 2]),
       dataset_info |-> [dataset_id |-> id], error |-> ""],
      [success |-> TRUE, intent |-> Some(BackendIntent),
       model_id |-> 0,
       validation |-> [is_valid |-> FALSE, warnings |-> << "target not found" >>],
       experiment_plan |-> None,
       dataset_info |-> [dataset_id |-> 0], error |-> ""] }
    \cup
    { [success |-> FALSE, intent |-> None, model_id |-> 0,
       validation |-> [is_valid |-> FALSE, warnings |-> << >>],
       experiment_plan |-> None,
       dataset_info |-> [dataset_id |-> 0],
       error |-> "Could not understand the prompt"],
      [success |-> FALSE, intent |-> Some(BackendIntent), model_id |-> 0,
       validation |-> [is_valid |-> FALSE, warnings |-> << >>],
       experiment_plan |-> None,
       dataset_info |-> [dataset_id |-> id], error |-> ""] }

\* Mutant: the success flag of the response is not looked at.
ExtractionAccepted_always(r) == TRUE

\* if (!result.success) throw ...: whether handleSubmit stores the response.
ExtractionAccepted(r) == r.success

\* POST /extract-intent/ answers and the response is stored: setIntentResult,
\* then the finally block.
ExtractOk(i, r) ==
    /\ i \in 1..Len(submits)
    /\ submits[i].pc = "extract"
    /\ r \in ExtractResponses(submits[i].dataset_id)
    /\ ExtractionAccepted(r)
    /\ intentResult' = Some(r)
    /\ loading' = FALSE
    /\ trainingLoading' = FALSE
    /\ submits' = RemoveAt(submits, i)
    /\ extractedDatasetId' = submits[i].dataset_id
    /\ Log("extractOk")
    /\ UNCHANGED << formVars, error, datasets, trainingResult, trainings, loadOp,
                    fetchOp, serverDatasets >>

\* POST /extract-intent/ answers and handleSubmit throws on the response:
\* new Error(result.error || "Failed to extract intent").
ExtractReject(i, r) ==
    /\ i \in 1..Len(submits)
    /\ submits[i].pc = "extract"
    /\ r \in ExtractResponses(submits[i].dataset_id)
    /\ ~ExtractionAccepted(r)
    /\ SubmitCatch(i, Thrown(IF r.error # "" THEN r.error
                             ELSE "Failed to extract intent"), "extractRejected")
    /\ UNCHANGED << formVars, datasets, intentResult, trainingResult, trainings,
                    loadOp, fetchOp, serverDatasets,
                    extractedDatasetId >>

\* POST /extract-intent/ fails (non-2xx status or no answer)
ExtractFail(i, err) ==
    /\ i \in 1..Len(submits)
    /\ submits[i].pc = "extract"
    /\ SubmitCatch(i, err, "extractFail")
    /\ UNCHANGED << formVars, datasets, intentResult, trainingResult, trainings,
                    loadOp, fetchOp, serverDatasets,
                    extractedDatasetId >>

\* ------------------------------------------------------- the review panel

\* Mutant: the edit stores the new intent without the response's model_id.
SetIntent_fresh(newIntent) ==
    /\ intentResult' = Some([Get(intentResult) EXCEPT !.intent = Some(newIntent),
                                                       !.model_id = 0])
    /\ Log("edit")
    /\ UNCHANGED << formVars, loading, trainingLoading, error, datasets,
                    trainingResult, opVars, serverDatasets,
                    extractedDatasetId >>

\* IntentEditor onChange: setIntentResult({ ...intentResult, intent: newIntent })
SetIntent(newIntent) ==
    /\ intentResult' = Some([Get(intentResult) EXCEPT !.intent = Some(newIntent)])
    /\ Log("edit")
    /\ UNCHANGED << formVars, loading, trainingLoading, error, datasets,
                    trainingResult, opVars, serverDatasets,
                    extractedDatasetId >>

\* the metric <select> of the editor: updateTask('metric', value)
EditMetric(v) ==
    /\ HasIntent
    /\ SetIntent(updateTaskMetric(Get(Get(intentResult).intent), v))

\* a model card of the editor: toggleModel(name)
ToggleModel(name) ==
    /\ HasIntent
    /\ SetIntent(toggleModel(Get(Get(intentResult).intent), name))

\* The Cancel button: setIntentResult(null)
Cancel ==
    /\ HasIntent
    /\ intentResult' = None
    /\ Log("cancel")
    /\ UNCHANGED << formVars, loading, trainingLoading, error, datasets,
                    trainingResult, opVars, serverDatasets,
                    extractedDatasetId >>

\* ----------------------------------------------------- handleStartTraining

\* Mutant: the extraction's dataset id is preferred to the picked one.
TrainingDatasetId_infoFirst(mode, sel, info) ==
    IF info.dataset_id # 0 THEN info.dataset_id
    ELSE IF mode = "select" /\ sel # << >> THEN ParseInt(sel)
    ELSE 1

\* The dataset id handleStartTraining puts in the request.
TrainingDatasetId(mode, sel, info) ==
    IF mode = "select" /\ sel # << >> THEN ParseInt(sel)
    ELSE IF info.dataset_id # 0 THEN info.dataset_id
    ELSE 1

\* Mutant: the request carries the intent as extracted, not as edited.
TrainingRequest_unedited(ir) ==
    [ intent |-> BackendIntent,
      model_id |-> ir.model_id,
      dataset_id |-> TrainingDatasetId(selectionMode, selectedDatasetId,
                                       ir.dataset_info),
      project_id |-> IF ProjectId # 0 THEN ProjectId ELSE 1 ]

\* const trainingRequest = {...} (model_name, a timestamp, is left out)
TrainingRequest(ir) ==
    [ intent |-> Get(ir.intent),
      model_id |-> ir.model_id,
      dataset_id |-> TrainingDatasetId(selectionMode, selectedDatasetId,
                                       ir.dataset_info),
      project_id |-> IF ProjectId # 0 THEN ProjectId ELSE 1 ]

\* Mutant: the busy flag is raised before the guard, which then returns.
handleStartTraining_flagFirst ==
    IF ~HasIntent
    THEN /\ trainingLoading' = TRUE
         /\ error' = "No intent available"
         /\ Log("trainRejected")
         /\ UNCHANGED trainings
    ELSE /\ trainingLoading' = TRUE
         /\ error' = ""
         /\ trainings' = Append(trainings,
                                 [req |-> TrainingRequest(Get(intentResult)),
                                  after |-> lastEvent])
         /\ Log("confirmTrain")

\* The synchronous part of handleStartTraining, up to its await.
handleStartTraining ==
    IF ~HasIntent
    THEN /\ error' = "No intent available"
         /\ Log("trainRejected")
         /\ UNCHANGED << trainingLoading, trainings >>
    ELSE /\ trainingLoading' = TRUE
         /\ error' = ""
         /\ trainings' = Append(trainings,
                                 [req |-> TrainingRequest(Get(intentResult)),
                                  after |-> lastEvent])
         /\ Log("confirmTrain")

\* Mutant: the button is disabled for an intent that failed validation.
TrainButtonEnabled_validOnly ==
    HasIntent /\ ~trainingLoading /\ Get(intentResult).validation.is_valid

\* Whether the panel shows an enabled "Confirm & Train" button.
TrainButtonEnabled == HasIntent /\ ~trainingLoading

\* The "Confirm & Train" button
TrainClick ==
    /\ TrainButtonEnabled
    /\ Len(trainings) < MaxInFlight
    /\ handleStartTraining
    /\ UNCHANGED << formVars, loading, datasets, intentResult, trainingResult,
                    submits, loadOp, fetchOp, serverDatasets,
                    extractedDatasetId >>

\* handleStartTraining called without the button (the button exists only
\* while the editor panel is rendered; the handler has its own guard), between
\* calls.
StartTrainingCall ==
    /\ Quiescent
    /\ handleStartTraining
    /\ UNCHANGED << formVars, loading, datasets, intentResult, trainingResult,
                    submits, loadOp, fetchOp, serverDatasets,
                    extractedDatasetId >>

\* The answers POST /train/ can give with a 2xx status.
TrainResponses ==
    { [success |-> TRUE, model_id |-> ExtractedModelId, error |-> ""],
      [success |-> FALSE, model_id |-> 0, error |-> "Training failed"] }

\* POST /train/ answers with r: setTrainingResult(result), then finally.
TrainAnswered(i, r) ==
    /\ i \in 1..Len(trainings)
    /\ trainingResult' = Some(r)
    /\ trainingLoading' = FALSE
    /\ trainings' = RemoveAt(trainings, i)
    /\ Log("trainAnswered")
    /\ UNCHANGED << formVars, loading, error, datasets, intentResult, submits,
                    loadOp, fetchOp, serverDatasets,
                    extractedDatasetId >>

\* POST /train/ answers with one of TrainResponses
TrainOk(i, r) ==
    /\ r \in TrainResponses
    /\ TrainAnswered(i, r)

\* POST /train/ fails: catch, then finally.
TrainFail(i, err) ==
    /\ i \in 1..Len(trainings)
    /\ error' = ErrMsg(err, "Failed to start training. Please try again.")
    /\ trainingLoading' = FALSE
    /\ trainings' = RemoveAt(trainings, i)
    /\ Log("trainFail")
    /\ UNCHANGED << formVars, loading, datasets, intentResult, trainingResult,
                    submits, loadOp, fetchOp, serverDatasets,
                    extractedDatasetId >>

\* ------------------------------------------------------------- handleReset

\* "Build Another Model", shown in the results panel
handleReset ==
    /\ IsSome(trainingResult)
    /\ prompt' = << >>
    /\ file' = NoFile
    /\ intentResult' = None
    /\ trainingResult' = None
    /\ error' = ""
    /\ Log("reset")
    /\ UNCHANGED << loading, trainingLoading, selectionMode, selectedDatasetId,
                    datasets, opVars, serverDatasets,
                    extractedDatasetId >>

\* ------------------------------------------------------------ mount effects

\* The records GET /models/{id}/ can return for the draft.
DraftModels ==
    { [id |-> DraftId, intent |-> Some(BackendIntent), dataset |-> 1],
      [id |-> DraftId, intent |-> Some(BackendIntent), dataset |-> 0],
      [id |-> DraftId, intent |-> None, dataset |-> 0] }

\* Mutant: the draft's id is not copied into the session.
DraftIntentResult_noModelId(m) ==
    [success |-> TRUE, intent |-> m.intent, model_id |-> 0,
     validation |-> [is_valid |-> TRUE, warnings |-> << >>],
     experiment_plan |-> None,
     dataset_info |-> [dataset_id |-> 0], error |-> ""]

\* The object loadModel stores for a draft that has an intent.
DraftIntentResult(m) ==
    [success |-> TRUE, intent |-> m.intent, model_id |-> m.id,
     validation |-> [is_valid |-> TRUE, warnings |-> << >>],
     experiment_plan |-> None,
     dataset_info |-> [dataset_id |-> 0], error |-> ""]

\* loadModel: getModel answered
LoadModelOk(m) ==
    /\ loadOp
    /\ m \in DraftModels
    /\ intentResult' =
          IF IsSome(m.intent) THEN Some(DraftIntentResult(m)) ELSE intentResult
    /\ IF m.dataset # 0
       THEN /\ selectionMode' = "select"
            /\ selectedDatasetId' = toString(m.dataset)
       ELSE UNCHANGED << selectionMode, selectedDatasetId >>
    /\ loading' = FALSE
    /\ loadOp' = FALSE
    /\ Log("loadOk")
    /\ UNCHANGED << prompt, trainingLoading, error, file, datasets, trainingResult,
                    submits, trainings, fetchOp, serverDatasets,
                    extractedDatasetId >>

\* loadModel: getModel failed with err (logged; the message shown is fixed)
LoadModelFail(err) ==
    /\ loadOp
    /\ err \in ServerErrors
    /\ error' = "Failed to load model details."
    /\ loading' = FALSE
    /\ loadOp' = FALSE
    /\ Log("loadFail")
    /\ UNCHANGED << formVars, trainingLoading, datasets, intentResult,
                    trainingResult, submits, trainings, fetchOp, serverDatasets,
                    extractedDatasetId >>

\* fetchDatasets of the mount effect: getDatasets answered
FetchDatasetsOk ==
    /\ fetchOp
    /\ datasets' = 1..Len(serverDatasets)
    /\ fetchOp' = FALSE
    /\ UNCHANGED << formVars, loading, trainingLoading, error, intentResult,
                    trainingResult, submits, trainings, loadOp, serverDatasets,
                    extractedDatasetId,
                    lastEvent >>

\* fetchDatasets of the mount effect: getDatasets failed (logged only)
FetchDatasetsFail ==
    /\ fetchOp
    /\ fetchOp' = FALSE
    /\ UNCHANGED << formVars, loading, trainingLoading, error, datasets,
                    intentResult, trainingResult, submits, trainings, loadOp,
                    serverDatasets,
                    extractedDatasetId, lastEvent >>

\* ------------------------------------------------------------ specification

\* The component as a browser drives it: every event comes from a control
\* that is rendered and enabled.
Next ==
    \/ \E v \in Prompts : SetPrompt(v)
    \/ \E m \in { "upload", "select" } : SetSelectionMode(m)
    \/ \E f \in Files : handleFileChange(f)
    \/ removeFile
    \/ \E v \in DatasetOptions : SelectDataset(v)
    \/ SubmitClick
    \/ \E i \in 1..MaxInFlight, withId \in BOOLEAN : UploadOk(i, withId)
    \/ \E i \in 1..MaxInFlight, err \in ServerErrors : UploadFail(i, err)
    \/ \E i \in 1..MaxInFlight : RefreshOk(i)
    \/ \E i \in 1..MaxInFlight, err \in ServerErrors : RefreshFail(i, err)
    \/ \E i \in 1..MaxInFlight, id \in 1..MaxDatasets :
          \E r \in ExtractResponses(id) : ExtractOk(i, r)
    \/ \E i \in 1..MaxInFlight, id \in 1..MaxDatasets :
          \E r \in ExtractResponses(id) : ExtractReject(i, r)
    \/ \E i \in 1..MaxInFlight, err \in ServerErrors : ExtractFail(i, err)
    \/ \E v \in Metrics : EditMetric(v)
    \/ \E name \in ToggleNames : ToggleModel(name)
    \/ Cancel
    \/ TrainClick
    \/ \E i \in 1..MaxInFlight, r \in TrainResponses : TrainOk(i, r)
    \/ \E i \in 1..MaxInFlight, err \in ServerErrors : TrainFail(i, err)
    \/ handleReset
    \/ \E m \in DraftModels : LoadModelOk(m)
    \/ \E err \in ServerErrors : LoadModelFail(err)
    \/ FetchDatasetsOk
    \/ FetchDatasetsFail

Spec == Init /\ [][Next]_vars

\* The handlers as functions: the form's submit event and the training call
\* may also arrive without their buttons, so that the handlers' own checks
\* decide.
NextHandlers ==
    \/ Next
    \/ FormSubmit
    \/ StartTrainingCall

HandlerSpec == Init /\ [][NextHandlers]_vars

\* Call i of handleSubmit gets its next answer from the backend.
SubmitAnswer(i) ==
    \/ \E withId \in BOOLEAN : UploadOk(i, withId)
    \/ \E err \in ServerErrors : UploadFail(i, err)
    \/ RefreshOk(i)
    \/ \E err \in ServerErrors : RefreshFail(i, err)
    \/ \E id \in 1..MaxDatasets : \E r \in ExtractResponses(id) :
          ExtractOk(i, r) \/ ExtractReject(i, r)
    \/ \E err \in ServerErrors : ExtractFail(i, err)

\* Call i of handleStartTraining gets its answer.
TrainAnswer(i) ==
    \/ \E r \in TrainResponses : TrainOk(i, r)
    \/ \E err \in ServerErrors : TrainFail(i, err)

\* The draft load gets its answer.
LoadAnswer ==
    \/ \E m \in DraftModels : LoadModelOk(m)
    \/ \E err \in ServerErrors : LoadModelFail(err)

\* The user of the fair runs: types the empty or the non-blank prompt and
\* edits nothing but the metric of the extracted intent. No answer of the
\* backend leaves this scope, so it takes no answer away.
FairScope ==
    /\ prompt \in { << >>, << " ", "a" >> }
    /\ HasIntent =>
          Get(Get(intentResult).intent)
             \in { updateTaskMetric(BackendIntent, v) : v \in Metrics }

FairNext == Next /\ FairScope'

\* The component with a backend that answers: every pending call eventually
\* returns or fails (the code sets no timeout and never abandons an await).
FairSpec ==
    /\ Init
    /\ [][FairNext]_vars
    /\ \A i \in 1..MaxInFlight :
          WF_vars(SubmitAnswer(i)) /\ WF_vars(TrainAnswer(i))
    /\ WF_vars(LoadAnswer)

\* ------------------------------------------------------------------ phases

\* The phases of the build session, read off the component's state.
Idle == ~loading /\ ~trainingLoading /\ ~HasIntent /\ trainingResult = None

ReviewingIntent == ~loading /\ ~trainingLoading /\ HasIntent /\ trainingResult = None

Completed == IsSome(trainingResult)

Errored == error # ""

\* The prompt holds a character that is not whitespace.
NonBlank(p) == \E i \in 1..Len(p) : p[i] \notin Whitespace

\* Upload mode with a file attached, or select mode with a dataset id picked.
CompleteSelection ==
    \/ selectionMode = "upload" /\ file # NoFile
    \/ selectionMode = "select" /\ selectedDatasetId # << >>

\* The step is a run of handleSubmit's synchronous part.
SubmitStep ==
    /\ lastEvent' \in { "submit", "submitRejected", "resolveFail" }
    /\ lastEvent' # lastEvent \/ error' # error \/ submits' # submits

\* The step starts a new handleSubmit / handleStartTraining call.
SubmitStarted == Len(submits') = Len(submits) + 1

TrainStarted == Len(trainings') = Len(trainings) + 1

\* ------------------------------------------------------------------ claims

\* C1: a submit from Idle with a non-blank prompt and a complete dataset
\* selection starts dataset resolution (the session becomes busy and one
\* backend call, the upload or the extraction, is issued); a submit from Idle
\* with a blank or whitespace-only prompt leaves the session Idle, issues no
\* call and reports the input error.
C1_SubmitFromIdle ==
    [][ (Idle /\ SubmitStep) =>
          /\ (NonBlank(prompt) /\ CompleteSelection) =>
                /\ lastEvent' = "submit"
                /\ loading'
                /\ Len(submits') = 1
                /\ submits'[1].pc \in { "upload", "extract" }
          /\ ~NonBlank(prompt) =>
                /\ Idle'
                /\ submits' = << >>
                /\ error' = "Please enter a prompt" ]_vars

\* C1 witness: a submit was rejected and the next one started the resolution.
C1_Witness ==
    /\ loading
    /\ Len(submits) = 1
    /\ submits[1].after = "submitRejected"
    /\ submits[1].pc = "upload"

\* C2: a submit whose preconditions fail (blank prompt, upload mode without a
\* file, select mode without a dataset id) is rejected and changes nothing but
\* the error message: intent, outcome, busy flags, dataset selection and the
\* pending backend calls are as before.
C2_RejectedSubmitOnlySetsError ==
    [][ (SubmitStep /\ (~NonBlank(prompt) \/ ~CompleteSelection)) =>
          /\ lastEvent' = "submitRejected"
          /\ error' # ""
          /\ UNCHANGED << intentResult, trainingResult, loading, trainingLoading,
                          formVars, datasets, opVars, serverDatasets,
                    extractedDatasetId >> ]_vars

\* C2 witness: a submit was rejected in a session that holds an intent and an
\* outcome, and both are still there.
C2_Witness ==
    /\ lastEvent = "submitRejected"
    /\ HasIntent
    /\ IsSome(trainingResult)
    /\ error = "Please upload a dataset file"

\* C3: at most one asynchronous operation (upload or extraction of a submit,
\* training, draft load) is in flight, and it holds its busy flag; so a submit
\* while an extraction is in flight starts no second upload or extraction.
C3_OneOperationInFlight ==
    /\ Len(submits) + Len(trainings) + (IF loadOp THEN 1 ELSE 0) <= 1
    /\ submits # << >> => loading
    /\ trainings # << >> => trainingLoading

\* C3 witness: an extraction is in flight while the form holds a prompt and a
\* dataset selection that a submit would accept.
C3_Witness ==
    /\ Len(submits) = 1
    /\ submits[1].pc = "extract"
    /\ NonBlank(prompt)
    /\ CompleteSelection

\* C4 as claimed: submit starts only from Idle or Errored, confirmTrain only
\* from ReviewingIntent or Errored, and from Completed neither starts.
C4_Original ==
    [][ /\ SubmitStarted => (Idle \/ Errored)
        /\ TrainStarted => (ReviewingIntent \/ Errored)
        /\ Completed => (~SubmitStarted /\ ~TrainStarted) ]_vars

\* C5: loading and trainingLoading are never true together.
C5_BusyFlagsExclusive == ~(loading /\ trainingLoading)

\* C5 witness: training is in flight while the form holds a prompt and a
\* dataset selection that a submit would accept.
C5_Witness ==
    /\ trainingLoading
    /\ Len(trainings) = 1
    /\ NonBlank(prompt)
    /\ CompleteSelection

\* The stored response is a successful answer of the backend.
IsExtractionResult(ir) ==
    \E id \in 1..MaxDatasets : ir \in { r \in ExtractResponses(id) : r.success }

\* C6: right after a successful extraction the session is in ReviewingIntent
\* (not busy, no training outcome) and holds the extraction's response with
\* its intent.
C6_ExtractionEntersReview ==
    lastEvent = "extractOk" =>
        /\ ReviewingIntent
        /\ IsExtractionResult(Get(intentResult))
        /\ Get(Get(intentResult).intent) = BackendIntent

\* C6 witness: an extraction has just succeeded.
C6_Witness ==
    /\ lastEvent = "extractOk"
    /\ HasIntent
    /\ IsSome(Get(intentResult).experiment_plan)
    /\ Len(serverDatasets) = MaxDatasets

\* C7: a 2xx extract-intent response with success = false ends in the error
\* state with a message (the response's, or the generic one), no intent is
\* stored and no stored response ever has success = false.
C7_RejectedExtractionIsFailure ==
    /\ lastEvent = "extractRejected" =>
          /\ error \in { "Could not understand the prompt",
                         "Failed to extract intent" }
          /\ intentResult = None
          /\ ~loading
    /\ IsSome(intentResult) => Get(intentResult).success

\* C7 witness: a success = false response that carried an intent and no
\* message was rejected with the generic message.
C7_Witness ==
    /\ lastEvent = "extractRejected"
    /\ error = "Failed to extract intent"

\* C8: a failed training call leaves intentResult as it was, sets the error
\* and clears the training flag; after it, a session that holds an intent
\* offers confirmTrain, and every confirmTrain sends the session's current
\* intent while no submit (upload / extraction) is pending.
C8_TrainingFailureKeepsIntent ==
    /\ [][ (lastEvent' = "trainFail" /\ trainings' # trainings) =>
              /\ intentResult' = intentResult
              /\ error' # ""
              /\ ~trainingLoading' ]_vars
    /\ [](lastEvent = "trainFail" /\ HasIntent => TrainButtonEnabled)
    /\ [][ TrainStarted =>
              /\ trainings'[Len(trainings')].req.intent
                    = Get(Get(intentResult).intent)
              /\ submits = << >>
              /\ submits' = << >> ]_vars

\* C8 witness: a retry is in flight: started right after a training failure,
\* carrying an edited intent.
C8_Witness ==
    /\ Len(trainings) = 1
    /\ trainings[1].after = "trainFail"
    /\ trainings[1].req.intent # BackendIntent
    /\ trainings[1].req.intent = Get(Get(intentResult).intent)

\* The backend holds a dataset record created from file f.
AlreadyUploaded(f) ==
    \E id \in 2..Len(serverDatasets) : serverDatasets[id] = SplitFirst(f, ".")

\* C9 as claimed: Cancel from ReviewingIntent gives Idle, discards the intent
\* and leaves the dataset selection alone, and a submit issued after the
\* cancel does not upload a file again that the session has uploaded.
C9_Original ==
    /\ [][ (ReviewingIntent /\ lastEvent' = "cancel" /\ intentResult' # intentResult)
              => (Idle' /\ intentResult' = None /\ UNCHANGED formVars) ]_vars
    /\ [](\A i \in 1..Len(submits) :
              (submits[i].after = "cancel" /\ submits[i].pc = "upload")
                  => ~AlreadyUploaded(submits[i].file))

\* C10 as claimed: reset leaves an empty prompt, no attached file, no selected
\* dataset id, no intent, no outcome and no error.
C10_Original ==
    [][ (IsSome(trainingResult) /\ lastEvent' = "reset") =>
          /\ prompt' = << >>
          /\ file' = NoFile
          /\ selectedDatasetId' = << >>
          /\ intentResult' = None
          /\ trainingResult' = None
          /\ error' = "" ]_vars

\* The step is the build operation that logs event e (a handler's synchronous
\* part or a completion), not a form control acting after it.
BuildStep(e) ==
    /\ lastEvent' = e
    /\ \/ lastEvent' # lastEvent
       \/ intentResult' # intentResult
       \/ trainingResult' # trainingResult
       \/ submits' # submits
       \/ trainings' # trainings

\* C11 as claimed: once an error message is shown, each following user-issued
\* transition (submit, confirmTrain, cancel, edit, reset) removes it: after
\* the step no message is shown, or only one the step itself raised.
C11_Original ==
    [][ (error # "" /\ \E e \in { "submit", "confirmTrain", "cancel", "edit", "reset" } :
                          BuildStep(e))
          => error' = "" ]_vars

\* C12 as claimed: the training request carries the dataset id that was sent
\* in the extract-intent request which produced the session's intent,
\* whatever the user did between the extraction and confirmTrain.
C12_Original ==
    [][ (TrainStarted /\ extractedDatasetId # 0) =>
          trainings'[Len(trainings')].req.dataset_id = extractedDatasetId ]_vars

\* C13 as claimed: a change of the source mode discards the dataset id
\* resolved before it: right after the change, a submit in select mode does
\* not send the id selected earlier, and a confirmTrain does not send the id
\* the last extraction returned.
C13_Original ==
    [][ selectionMode' # selectionMode =>
          /\ (selectionMode' = "select" /\ selectedDatasetId # << >>)
                => selectedDatasetId' # selectedDatasetId
          /\ (TrainButtonEnabled /\ Get(intentResult).dataset_info.dataset_id # 0)
                => TrainingRequest(Get(intentResult))'.dataset_id
                      # Get(intentResult).dataset_info.dataset_id ]_vars

\* ------------------------------------------- handleStartTraining, in isolation

\* Dataset ids of a project whose backend numbers them 3, 7 and 12.
ProjectDatasetIds == { 3, 7, 12 }

\* The component in review: the response ir is stored, the form holds a
\* prompt and the dataset selection (mode, sel); nothing is pending.
Reviewing(ir, mode, sel, listed) ==
    /\ prompt = << " ", "a" >>
    /\ loading = FALSE
    /\ trainingLoading = FALSE
    /\ error = ""
    /\ file = NoFile
    /\ selectionMode = mode
    /\ datasets = listed
    /\ selectedDatasetId = sel
    /\ intentResult = Some(ir)
    /\ trainingResult = None
    /\ submits = << >>
    /\ trainings = << >>
    /\ loadOp = FALSE
    /\ fetchOp = FALSE
    /\ serverDatasets = << ExistingDataset >>
    /\ extractedDatasetId = 0
    /\ lastEvent = "extractOk"

\* Review states over every combination of the three sources of the training
\* dataset id: the mode, the picked id ("" or one of the listed ids) and the
\* dataset_info.dataset_id of the stored response (absent or an id).
TrainingInit ==
    \E mode \in { "upload", "select" },
       sel \in { << >> } \cup { toString(d) : d \in ProjectDatasetIds },
       info \in { 0 } \cup ProjectDatasetIds :
        \E ir \in ExtractResponses(info) :
            /\ ir.success
            /\ IsSome(ir.experiment_plan)
            /\ Reviewing(ir, mode, sel, ProjectDatasetIds)

TrainingNext ==
    \/ TrainClick
    \/ \E i \in 1..MaxInFlight, r \in TrainResponses : TrainOk(i, r)
    \/ \E i \in 1..MaxInFlight, err \in ServerErrors : TrainFail(i, err)

TrainingSpec == TrainingInit /\ [][TrainingNext]_vars

\* C14: the dataset id of a training request is the picked id when the mode
\* is select and an id is picked; otherwise the dataset_info.dataset_id of the
\* stored extraction response when it has one; otherwise 1.  With mode select,
\* picked id 7 and extraction id 3 the request carries 7.
C14_DatasetIdResolutionOrder ==
    [][ TrainStarted =>
          LET id == trainings'[Len(trainings')].req.dataset_id
              info == Get(intentResult).dataset_info.dataset_id
              picked == selectionMode = "select" /\ selectedDatasetId # << >>
          IN  /\ picked => toString(id) = selectedDatasetId
              /\ (~picked /\ info # 0) => id = info
              /\ (~picked /\ info = 0) => id = 1
              /\ (selectionMode = "select" /\ selectedDatasetId = << 7 >> /\ info = 3)
                    => id = 7 ]_vars

\* C14 witness: mode select, picked id 7, extraction id 3, and the request in
\* flight carries 7.
C14_Witness ==
    /\ selectionMode = "select"
    /\ selectedDatasetId = << 7 >>
    /\ Get(intentResult).dataset_info.dataset_id = 3
    /\ Len(trainings) = 1
    /\ trainings[1].req.dataset_id = 7

\* C15 as claimed: when the upload of a submit has succeeded and the dataset
\* list refresh that follows it fails, the submit goes on to the
\* extract-intent call and the failure sets no error.
C15_Original ==
    [][ BuildStep("refreshFail") =>
          /\ error' = error
          /\ loading'
          /\ Len(submits') = Len(submits)
          /\ \A i \in 1..Len(submits) :
                submits'[i].pc = (IF submits[i].pc = "refresh" THEN "extract"
                                  ELSE submits[i].pc) ]_vars

\* -------------------------------------------------- the editor, in isolation

\* The options of the editor's selects (two of each), by field.
TaskFieldValues ==
    [type |-> { "regression", "classification" }, metric |-> { "rmse", "accuracy" }]

PreprocessingFieldValues ==
    [scaling |-> { "standard", "minmax" }, encoding |-> { "onehot", "label" }]

MissingStrategyValues ==
    [numeric |-> { "mean", "median" }, categorical |-> { "most_frequent", "constant" }]

\* The model cards the user toggles.
EditorToggleNames == { "random_forest", "xgboost", "svm" }

\* Intents the backend can deliver to the editor: the complete one, one with
\* two tuned models and no missing_strategy, and one with only a task.
EditorIntents ==
    { BackendIntent,
      [ task |-> [type |-> "regression", metric |-> "rmse"],
        preprocessing |-> [scaling |-> "minmax"],
        search_space |-> [models |-> << [name |-> "xgboost", params |-> "max_depth"],
                                       [name |-> "random_forest",
                                        params |-> "n_estimators"] >>] ],
      [ task |-> [type |-> "classification"] ] }

\* the select of a task field: updateTask(key, e.target.value)
EditTask(key, value) ==
    /\ HasIntent
    /\ SetIntent(updateTask(Get(Get(intentResult).intent), key, value))

\* the select of a preprocessing field: updatePreprocessing(key, e.target.value)
EditPreprocessing(key, value) ==
    /\ HasIntent
    /\ SetIntent(updatePreprocessing(Get(Get(intentResult).intent), key, value))

\* the missing-values selects
EditMissingStrategy(which, value) ==
    /\ HasIntent
    /\ SetIntent(updateMissingStrategy(Get(Get(intentResult).intent), which, value))

\* The editor opened on a delivered intent.
EditorInit ==
    \E intent \in EditorIntents, r \in ExtractResponses(1) :
        /\ r.success
        /\ IsSome(r.experiment_plan)
        /\ Reviewing([r EXCEPT !.intent = Some(intent)], "select", << 1 >>, { 1 })

EditorNext ==
    \/ \E key \in DOMAIN TaskFieldValues :
          \E value \in TaskFieldValues[key] : EditTask(key, value)
    \/ \E key \in DOMAIN PreprocessingFieldValues :
          \E value \in PreprocessingFieldValues[key] : EditPreprocessing(key, value)
    \/ \E which \in DOMAIN MissingStrategyValues :
          \E value \in MissingStrategyValues[which] : EditMissingStrategy(which, value)
    \/ \E name \in EditorToggleNames : ToggleModel(name)

EditorSpec == EditorInit /\ [][EditorNext]_vars

\* The intent the editor shows.
CurrentIntent == Get(Get(intentResult).intent)

\* new is old with property key set to value: the same properties otherwise,
\* each with its old value.
OnlyDiffersAt(old, new, key, value) ==
    /\ DOMAIN new = DOMAIN old \cup { key }
    /\ new[key] = value
    /\ \A k \in DOMAIN old \ { key } : new[k] = old[k]

\* C16: an edit of task.<key>, preprocessing.<key> or
\* preprocessing.missing_strategy.<which> yields an intent that differs from
\* the previous one at that field only: every sibling field and every other
\* section has its previous value (the previous intent is a value the edit
\* reads, never writes).
C16_FieldEditChangesOnlyThatField ==
    [][ /\ \A key \in DOMAIN TaskFieldValues : \A value \in TaskFieldValues[key] :
              EditTask(key, value) =>
                 /\ OnlyDiffersAt(CurrentIntent, CurrentIntent', "task",
                                  CurrentIntent'.task)
                 /\ OnlyDiffersAt(Section(CurrentIntent, "task"),
                                  CurrentIntent'.task, key, value)
        /\ \A key \in DOMAIN PreprocessingFieldValues :
              \A value \in PreprocessingFieldValues[key] :
                 EditPreprocessing(key, value) =>
                    /\ OnlyDiffersAt(CurrentIntent, CurrentIntent', "preprocessing",
                                     CurrentIntent'.preprocessing)
                    /\ OnlyDiffersAt(Section(CurrentIntent, "preprocessing"),
                                     CurrentIntent'.preprocessing, key, value)
        /\ \A which \in DOMAIN MissingStrategyValues :
              \A value \in MissingStrategyValues[which] :
                 EditMissingStrategy(which, value) =>
                    /\ OnlyDiffersAt(CurrentIntent, CurrentIntent', "preprocessing",
                                     CurrentIntent'.preprocessing)
                    /\ OnlyDiffersAt(Section(CurrentIntent, "preprocessing"),
                                     CurrentIntent'.preprocessing, "missing_strategy",
                                     CurrentIntent'.preprocessing.missing_strategy)
                    /\ OnlyDiffersAt(Section(Section(CurrentIntent, "preprocessing"),
                                             "missing_strategy"),
                                     CurrentIntent'.preprocessing.missing_strategy,
                                     which, value) ]_vars

\* C16 witness: after edits, an intent whose task, scaling and numeric
\* strategy were changed while its categorical strategy and models are those
\* delivered.
C16_Witness ==
    /\ lastEvent = "edit"
    /\ DOMAIN CurrentIntent = DOMAIN BackendIntent
    /\ CurrentIntent.search_space = BackendIntent.search_space
    /\ DOMAIN CurrentIntent.task = { "type", "metric" }
    /\ CurrentIntent.task.type = "regression"
    /\ CurrentIntent.task.metric = "rmse"
    /\ DOMAIN CurrentIntent.preprocessing = { "scaling", "missing_strategy" }
    /\ CurrentIntent.preprocessing.scaling = "minmax"
    /\ CurrentIntent.preprocessing.missing_strategy
          = [numeric |-> "median", categorical |-> "most_frequent"]

\* C17: toggleModel(name) appends {name, params: {}} when no entry has the
\* name and otherwise removes the entry with the name; the other entries keep
\* their order, names and params, and the rest of the intent is untouched.
C17_ToggleAddsOrRemovesByName ==
    [][ \A name \in EditorToggleNames :
          ToggleModel(name) =>
             LET old == Models(CurrentIntent)
                 new == Models(CurrentIntent')
                 Other(m) == m.name # name
             IN  /\ IF \E i \in 1..Len(old) : old[i].name = name
                    THEN new = SelectSeq(old, Other)
                    ELSE new = Append(old, [name |-> name, params |-> ""])
                 /\ \A k \in DOMAIN CurrentIntent \ { "search_space" } :
                       CurrentIntent'[k] = CurrentIntent[k] ]_vars

\* C17 witness: from (xgboost, random_forest), both tuned, xgboost was removed
\* and svm appended: random_forest is first, as delivered, and svm is last.
C17_Witness ==
    /\ lastEvent = "edit"
    /\ Models(CurrentIntent) = << [name |-> "random_forest", params |-> "n_estimators"],
                                  [name |-> "svm", params |-> ""] >>

\* The entries of a models array, as a set.
AsSet(models) == { models[i] : i \in 1..Len(models) }

\* C18 as claimed: toggling a name twice gives back the models of the
\* original intent, as a set of {name, params} entries.
C18_Original ==
    [][ \A name \in EditorToggleNames :
          ToggleModel(name) =>
             AsSet(Models(toggleModel(CurrentIntent', name)))
                = AsSet(Models(CurrentIntent)) ]_vars

\* C18 amended: toggling a name twice gives back the original set of model
\* names, with every entry of another name unchanged; an entry of that name
\* comes back with empty params, whatever params it had.
C18_ToggleTwiceRestoresNames ==
    [][ \A name \in EditorToggleNames :
          ToggleModel(name) =>
             LET old == AsSet(Models(CurrentIntent))
                 twice == AsSet(Models(toggleModel(CurrentIntent', name)))
             IN  /\ { m.name : m \in twice } = { m.name : m \in old }
                 /\ { m \in twice : m.name # name } = { m \in old : m.name # name }
                 /\ \A m \in twice : m.name = name => m.params = "" ]_vars

\* C18 witness: random_forest, delivered with tuned params, was toggled off
\* and on again: it is back, with empty params.
C18_Witness ==
    /\ lastEvent = "edit"
    /\ [name |-> "random_forest", params |-> ""] \in AsSet(Models(CurrentIntent))
    /\ Len(Models(CurrentIntent)) >= 2

\* The entries of a models array have pairwise different names.
UniqueByName(models) ==
    \A i, j \in 1..Len(models) : models[i].name = models[j].name => i = j

\* C19: in every state of the session the models of the stored intent, and of
\* every training request in flight, are unique by name.
C19_ModelsUniqueByName ==
    /\ HasIntent => UniqueByName(Models(CurrentIntent))
    /\ \A i \in 1..Len(trainings) : UniqueByName(Models(trainings[i].req.intent))

\* C19 witness: a model was toggled on and a training request carrying the
\* two-entry list is in flight while the editor still shows it.
C19_Witness ==
    /\ HasIntent
    /\ Len(Models(CurrentIntent)) = 2
    /\ Len(trainings) = 1
    /\ Len(Models(trainings[1].req.intent)) = 2
    /\ trainings[1].after = "edit"

\* ------------------------------------------------- the ranking of an outcome

\* Experiment results a training response can list.
MaxResults == 3

\* exp_id of the i-th result of a response
ExpIds == << "a", "b", "c", "d", "e" >>

\* test_score values, in hundredths (0.8 is 80): absent, negative, positive.
Scores == { None, Some(-50), Some(80), Some(90), Some(95) }

ResultLists ==
    UNION { [1..n -> [status : { "completed", "failed" }, test_score : Scores]]
              : n \in 0..MaxResults }

\* The responses of POST /train/ that list results.
RankedResponses ==
    { [success |-> TRUE, model_id |-> ExtractedModelId, error |-> "",
       results |-> [i \in 1..Len(rs) |->
                      [exp_id |-> ExpIds[i], status |-> rs[i].status,
                       test_score |-> rs[i].test_score]]] : rs \in ResultLists }

\* POST /train/ answers with a response that lists results
TrainOkRanked(i, r) ==
    /\ r \in RankedResponses
    /\ TrainAnswered(i, r)

\* Mutant: the status filter is left out.
IsCompleted_all(r) == TRUE

\* r.status === 'completed'
IsCompleted(r) == r.status = "completed"

\* r.test_score || 0
ScoreKey(r) == IF IsSome(r.test_score) /\ Get(r.test_score) # 0
               THEN Get(r.test_score) ELSE 0

\* Array.prototype.sort with (a, b) => ScoreKey(b) - ScoreKey(a): a stable
\* sort, here by insertion of the elements in their original order.
RECURSIVE InsertRanked(_, _)
InsertRanked(sorted, x) ==
    IF sorted = << >> THEN << x >>
    ELSE IF ScoreKey(x) - ScoreKey(Head(sorted)) > 0 THEN << x >> \o sorted
    ELSE << Head(sorted) >> \o InsertRanked(Tail(sorted), x)

RECURSIVE SortByScore(_)
SortByScore(rs) ==
    IF rs = << >> THEN << >>
    ELSE InsertRanked(SortByScore(SubSeq(rs, 1, Len(rs) - 1)), rs[Len(rs)])

\* results.filter(...).sort(...): the rows of the results table
Ranking(results) == SortByScore(SelectSeq(results, IsCompleted))

\* The rows the results panel shows (none without a listed outcome).
RankingShown ==
    IF IsSome(trainingResult) /\ "results" \in DOMAIN Get(trainingResult)
    THEN Ranking(Get(trainingResult).results)
    ELSE << >>

\* The component right after "Confirm & Train" in a review state: the
\* training request is in flight.
RankingInit ==
    \E r \in ExtractResponses(1) :
        /\ r.success
        /\ IsSome(r.experiment_plan)
        /\ prompt = << " ", "a" >>
        /\ loading = FALSE
        /\ trainingLoading = TRUE
        /\ error = ""
        /\ file = NoFile
        /\ selectionMode = "select"
        /\ datasets = { 1 }
        /\ selectedDatasetId = << 1 >>
        /\ intentResult = Some(r)
        /\ trainingResult = None
        /\ submits = << >>
        /\ trainings = << [req |-> TrainingRequest(r), after |-> "extractOk"] >>
        /\ loadOp = FALSE
        /\ fetchOp = FALSE
        /\ serverDatasets = << ExistingDataset >>
        /\ extractedDatasetId = 1
        /\ lastEvent = "confirmTrain"

\* The training answers with any listed results; the user may then reset.
RankingNext ==
    \/ \E i \in 1..MaxInFlight, r \in RankedResponses : TrainOkRanked(i, r)
    \/ handleReset

RankingSpec == RankingInit /\ [][RankingNext]_vars

\* C20 as claimed: the ranking holds exactly the completed results, ordered
\* by non-increasing test score with a missing score counted as 0, and an
\* entry without a test score is never above one that has a test score; for
\* a(completed, 0.8), b(failed, 0.95), c(completed, 0.9) it is [c, a].
C20_Original ==
    IsSome(trainingResult) =>
        LET results == Get(trainingResult).results
            rows == RankingShown
        IN  /\ Len(rows) = Cardinality({ i \in 1..Len(results) : IsCompleted(results[i]) })
            /\ AsSet(rows) = { r \in AsSet(results) : r.status = "completed" }
            /\ \A i, j \in 1..Len(rows) :
                  i < j =>
                     /\ ScoreKey(rows[i]) >= ScoreKey(rows[j])
                     /\ ~(rows[i].test_score = None /\ rows[j].test_score # None)
            /\ results = << [exp_id |-> "a", status |-> "completed", test_score |-> Some(80)],
                            [exp_id |-> "b", status |-> "failed", test_score |-> Some(95)],
                            [exp_id |-> "c", status |-> "completed", test_score |-> Some(90)] >>
                  => [i \in 1..Len(rows) |-> rows[i].exp_id] = << "c", "a" >>

\* C20 amended: the ranking holds exactly the completed results, ordered by
\* non-increasing test score with a missing score counted as 0: an entry
\* without a test score is never above an entry with a positive score (and
\* never below one with a negative score); for a(completed, 0.8),
\* b(failed, 0.95), c(completed, 0.9) it is [c, a].
C20_RankingCompletedByScore ==
    IsSome(trainingResult) =>
        LET results == Get(trainingResult).results
            rows == RankingShown
            Score(r) == IF r.test_score = None THEN 0 ELSE Get(r.test_score)
        IN  /\ Len(rows) = Cardinality({ i \in 1..Len(results) : results[i].status = "completed" })
            /\ AsSet(rows) = { r \in AsSet(results) : r.status = "completed" }
            /\ \A i, j \in 1..Len(rows) :
                  i < j =>
                     /\ Score(rows[i]) >= Score(rows[j])
                     /\ rows[i].test_score = None
                           => (rows[j].test_score = None \/ Get(rows[j].test_score) <= 0)
                     /\ rows[j].test_score = None
                           => (rows[i].test_score = None \/ Get(rows[i].test_score) >= 0)
            /\ results = << [exp_id |-> "a", status |-> "completed", test_score |-> Some(80)],
                            [exp_id |-> "b", status |-> "failed", test_score |-> Some(95)],
                            [exp_id |-> "c", status |-> "completed", test_score |-> Some(90)] >>
                  => [i \in 1..Len(rows) |-> rows[i].exp_id] = << "c", "a" >>

\* C20 witness: an outcome with a failed top scorer, a completed result
\* without a score and a completed one with a negative score: the unscored
\* one is ranked first.
C20_Witness ==
    /\ IsSome(trainingResult)
    /\ Get(trainingResult).results
          = << [exp_id |-> "a", status |-> "failed", test_score |-> Some(95)],
               [exp_id |-> "b", status |-> "completed", test_score |-> Some(-50)],
               [exp_id |-> "c", status |-> "completed", test_score |-> None] >>
    /\ [i \in 1..Len(RankingShown) |-> RankingShown[i].exp_id] = << "c", "b" >>

\* C21: when the draft record that loadModel receives has an intent and a
\* dataset id, the session then holds that intent and the draft's id, is in
\* select mode with that dataset id picked, has made no extract-intent call
\* and has no outcome; Confirm & Train is offered and the request it sends
\* carries the draft's intent, id and dataset id.
C21_ResumedDraftIsTrainable ==
    /\ [][ \A m \in DraftModels :
              (LoadModelOk(m) /\ IsSome(m.intent) /\ m.dataset # 0) =>
                 /\ HasIntent'
                 /\ CurrentIntent' = Get(m.intent)
                 /\ Get(intentResult').model_id = m.id
                 /\ selectionMode' = "select"
                 /\ ParseInt(selectedDatasetId') = m.dataset
                 /\ trainingResult' = None
                 /\ submits' = << >>
                 /\ extractedDatasetId' = 0
                 /\ TrainButtonEnabled'
                 /\ TrainingRequest(Get(intentResult))'.intent = Get(m.intent)
                 /\ TrainingRequest(Get(intentResult))'.model_id = m.id
                 /\ TrainingRequest(Get(intentResult))'.dataset_id = m.dataset ]_vars
    /\ [][ (TrainStarted /\ lastEvent = "loadOk") =>
              /\ trainings'[1].req = TrainingRequest(Get(intentResult))
              /\ trainingResult = None
              /\ extractedDatasetId = 0 ]_vars

\* C21 witness: the training confirmed right after the draft was loaded is in
\* flight, with the draft's id and dataset, and no extraction was ever made.
C21_Witness ==
    /\ Len(trainings) = 1
    /\ trainings[1].after = "loadOk"
    /\ trainings[1].req.model_id = DraftId
    /\ trainings[1].req.dataset_id = 1
    /\ trainings[1].req.intent = BackendIntent
    /\ extractedDatasetId = 0
    /\ trainingResult = None

\* The step is a run of handleStartTraining's synchronous part.
TrainStep ==
    /\ lastEvent' \in { "confirmTrain", "trainRejected" }
    /\ lastEvent' # lastEvent \/ error' # error \/ trainings' # trainings

\* C22: confirmTrain with no intent in the session is rejected with "No
\* intent available": no training request is sent, trainingLoading is not
\* raised and the outcome, like the rest of the session, is unchanged.
C22_TrainWithoutIntentRejected ==
    [][ (TrainStep /\ ~HasIntent) =>
          /\ lastEvent' = "trainRejected"
          /\ error' = "No intent available"
          /\ trainings' = trainings
          /\ trainingLoading' = trainingLoading
          /\ ~trainingLoading'
          /\ UNCHANGED << trainingResult, intentResult, loading, formVars,
                          submits >> ]_vars

\* C22 witness: the call was rejected in a session that has an outcome but no
\* intent any more (the intent was cancelled after the training).
C22_Witness ==
    /\ lastEvent = "trainRejected"
    /\ error = "No intent available"
    /\ IsSome(trainingResult)
    /\ ~HasIntent
    /\ ~trainingLoading
    /\ trainings = << >>

\* C23: after a successful extraction Confirm & Train is offered, and a
\* confirmTrain in a session that holds an intent sends the training request,
\* whatever validation.is_valid and validation.warnings are.
C23_ValidationNeverBlocks ==
    /\ [](lastEvent = "extractOk" => TrainButtonEnabled)
    /\ [][ (TrainStep /\ HasIntent) =>
              /\ TrainStarted
              /\ trainingLoading'
              /\ error' = ""
              /\ trainings'[Len(trainings')].req.intent = CurrentIntent ]_vars

\* C23 witness: a training request is in flight that was confirmed right
\* after an extraction whose validation failed, with a warning.
C23_Witness ==
    /\ Len(trainings) = 1
    /\ trainings[1].after = "extractOk"
    /\ HasIntent
    /\ ~Get(intentResult).validation.is_valid
    /\ Get(intentResult).validation.warnings # << >>

\* After the step a message is shown, and it is the server's when err has one.
ServerMessagePreferred(err) ==
    /\ error' # ""
    /\ err.resp # "" => error' = err.resp

\* A failed part of a submit: its call is over, with the busy flags down.
SubmitEnded == Len(submits') = Len(submits) - 1 /\ ~loading' /\ ~trainingLoading'

C25_ResolutionFailureStopsSubmit ==
    [][ \A i \in 1..MaxInFlight :
           /\ \A err \in ServerErrors :
                 (UploadFail(i, err) \/ RefreshFail(i, err)) =>
                    /\ ServerMessagePreferred(err)
                    /\ submits' = RemoveAt(submits, i)
                    /\ ~loading' /\ ~trainingLoading'
                    /\ UNCHANGED << selectedDatasetId, extractedDatasetId,
                                    intentResult, datasets >>
           /\ (RefreshOk(i) /\ submits[i].dataset_id = 0) =>
                 /\ error' = "Failed to resolve dataset ID"
                 /\ lastEvent' = "noDatasetId"
                 /\ submits' = RemoveAt(submits, i)
                 /\ ~loading' /\ ~trainingLoading'
                 /\ UNCHANGED << selectedDatasetId, extractedDatasetId,
                                 intentResult >>
           /\ (i \in 1..Len(submits) /\ i \in 1..Len(submits')
                 /\ submits[i].pc # "extract" /\ submits'[i].pc = "extract") =>
                 /\ submits[i].pc = "refresh"
                 /\ submits'[i].dataset_id # 0
                 /\ lastEvent' = "resolved" ]_vars

\* C25 witness: an upload answered without an id, the refresh went through and
\* the submit ended with the resolver's message, no intent and no extraction.
C25_Witness ==
    /\ lastEvent = "noDatasetId"
    /\ error = "Failed to resolve dataset ID"
    /\ submits = << >>
    /\ ~loading
    /\ ~HasIntent
    /\ extractedDatasetId = 0

\* C26: the model id of the session is the one the last stored extraction or
\* draft load supplied: edits, training answers and failures leave it alone,
\* and every training request that starts carries it, so a retry after any
\* number of edits names the same draft record.
C26_ModelIdCarriedToTraining ==
    /\ [][ TrainStarted =>
              /\ trainings'[Len(trainings')].req.model_id
                    = Get(intentResult).model_id
              /\ Get(intentResult').model_id = Get(intentResult).model_id ]_vars
    /\ [][ (HasIntent /\ HasIntent'
              /\ Get(intentResult').model_id # Get(intentResult).model_id)
              => lastEvent' \in { "extractOk", "loadOk" } ]_vars
    /\ [][ \A i \in 1..MaxInFlight, id \in 1..MaxDatasets :
              \A r \in ExtractResponses(id) :
                 ExtractOk(i, r) => Get(intentResult').model_id = r.model_id ]_vars

\* C26 witness: an extraction supplied a model id, the intent was edited, a
\* training failed, and the retry in flight carries the same model id with
\* the edited intent.
C26_Witness ==
    /\ Len(trainings) = 1
    /\ trainings[1].after = "trainFail"
    /\ extractedDatasetId # 0
    /\ trainings[1].req.model_id = ExtractedModelId
    /\ trainings[1].req.intent # BackendIntent
    /\ HasIntent
    /\ Get(intentResult).model_id = ExtractedModelId

\* C27: with a backend that answers every call, an accepted submit ends in
\* ReviewingIntent or with an error shown, an accepted training ends with an
\* outcome recorded or an error shown, and the draft load ends; the step that
\* ends a call leaves both busy flags false.
C27_AcceptedOperationsEnd ==
    /\ (submits # << >>) ~>
          (submits = << >> /\ ~loading /\ ~trainingLoading
              /\ (ReviewingIntent \/ Errored))
    /\ (trainings # << >>) ~>
          (trainings = << >> /\ ~loading /\ ~trainingLoading
              /\ (Completed \/ Errored))
    /\ loadOp ~> (~loadOp /\ ~loading)
    /\ [][ Len(submits') < Len(submits) =>
              (~loading' /\ ~trainingLoading' /\ (ReviewingIntent' \/ Errored')) ]_vars
    /\ [][ Len(trainings') < Len(trainings) =>
              (~loading' /\ ~trainingLoading' /\ (Completed' \/ Errored')) ]_vars

\* C27 witness: a submit that went through upload, refresh and extraction has
\* ended in ReviewingIntent with both flags false.
C27_Witness ==
    /\ lastEvent = "extractOk"
    /\ submits = << >>
    /\ selectionMode = "upload"
    /\ extractedDatasetId # 0
    /\ ReviewingIntent

\* The experiment plan panel is rendered: intentResult &&
\* intentResult.experiment_plan && trainingLoading.
PlanPanelShown ==
    /\ IsSome(intentResult)
    /\ IsSome(Get(intentResult).experiment_plan)
    /\ trainingLoading

\* C28 as claimed: an edit that changes the intent discards the experiment
\* plan of the extraction, so the plan is never shown for an intent that
\* differs from the extracted one, and the training request carries the
\* session's intent and no experiment plan.
C28_Original ==
    /\ [][ (BuildStep("edit") /\ HasIntent
              /\ Get(intentResult').intent # Get(intentResult).intent)
              => Get(intentResult').experiment_plan = None ]_vars
    /\ [](PlanPanelShown => Get(Get(intentResult).intent) = BackendIntent)
    /\ [][ TrainStarted =>
              /\ trainings'[Len(trainings')].req.intent
                    = Get(Get(intentResult).intent)
              /\ "experiment_plan" \notin DOMAIN trainings'[Len(trainings')].req ]_vars

\* C29 as claimed: an edit or a cancel takes effect only in ReviewingIntent;
\* while a training call is in flight the stored intent is neither changed
\* nor discarded; and when a training answer is recorded the session holds
\* the intent that was sent in that training's request.
C29_Original ==
    /\ [][ (BuildStep("edit") \/ BuildStep("cancel")) => ReviewingIntent ]_vars
    /\ [][ trainings # << >> => intentResult' = intentResult ]_vars
    /\ [][ \A i \in 1..MaxInFlight, r \in TrainResponses :
              TrainOk(i, r) =>
                 /\ HasIntent'
                 /\ Get(Get(intentResult').intent) = trainings[i].req.intent ]_vars

\* C30 as claimed: an outcome is recorded only for a training response that
\* reports success; a response with success = false records no outcome,
\* leaves the session's outcome as it was and shows the response's error.
C30_Original ==
    /\ [](IsSome(trainingResult) => Get(trainingResult).success)
    /\ [][ \A i \in 1..MaxInFlight, r \in TrainResponses :
              (TrainOk(i, r) /\ ~r.success) =>
                 /\ trainingResult' = trainingResult
                 /\ error' = r.error
                 /\ ~trainingLoading' ]_vars

====
